---- MODULE Spec2Model ----
(***************************************************************************)
(* Model of the familyroots record store (MemStorage), the HTTP routes     *)
(* that call it, and the tree builder (buildFamilyTree).                   *)
(*                                                                         *)
(* A JavaScript Map iterates in insertion order, Map.set on an existing    *)
(* key keeps the key's position and Map.delete removes it, so each Map is  *)
(* modelled as the sequence of its values.                                 *)
(***************************************************************************)
EXTENDS Integers, Sequences, FiniteSets, TLC

VARIABLES persons, relationships, currentPersonId, currentRelationshipId,
          lastOp, issuedPersonIds, issuedRelationshipIds,
          data, treeRoots, treePersons, layout, exportFile, inflight

vars == <<persons, relationships, currentPersonId, currentRelationshipId,
          lastOp, issuedPersonIds, issuedRelationshipIds, data, treeRoots,
          treePersons, layout, exportFile, inflight>>

storeVars == <<persons, relationships, currentPersonId, currentRelationshipId,
               lastOp, issuedPersonIds, issuedRelationshipIds, inflight>>

treeVars == <<data, treeRoots, treePersons, layout, exportFile>>

(***************************************************************************)
(* Bounds of the model.                                                    *)
(***************************************************************************)
\* createPerson is called while the id it would assign is at most this
MaxPersonId == 2
\* createRelationship is called while both ids it would assign are at most this
MaxRelationshipId == 4
\* person ids appearing in the input of buildFamilyTree
MaxTreePersonId == 3
\* length of the relationship list in the input of buildFamilyTree
MaxTreeRelationships == 1
\* person ids in the store data that is linked, laid out and exported
MaxForestPersonId == 3

\* ids a caller can pass: ids of persons that exist, were deleted, or were
\* never created
PersonIds == 1..MaxPersonId

\* InsertPerson: name is required, gender is optional (an absent key)
InsertPerson == {[name |-> "Ann", gender |-> "female"], [name |-> "Bob"]}

\* relationshipFormSchema: type is one of the four relationship types
RelationshipTypes == {"parent", "child", "spouse", "sibling"}

InsertRelationship ==
    [type : RelationshipTypes, personId : PersonIds, relatedPersonId : PersonIds]

(***************************************************************************)
(* Helpers for Maps kept as sequences of values.                           *)
(***************************************************************************)
Range(s) == {s[i] : i \in 1..Len(s)}

Ids(s) == {s[i].id : i \in 1..Len(s)}

\* Map.has(id)
MapHas(s, id) == id \in Ids(s)

\* Map.get(id), for an id the map has
MapGet(s, id) == s[CHOOSE i \in 1..Len(s) : s[i].id = id]

\* Map.set(v.id, v): replaces in place, or appends a new key
MapSet(s, v) ==
    IF MapHas(s, v.id)
    THEN [i \in 1..Len(s) |-> IF s[i].id = v.id THEN v ELSE s[i]]
    ELSE Append(s, v)

\* Map.delete(id)
MapDelete(s, id) == SelectSeq(s, LAMBDA v : v.id # id)

\* an absent value (undefined) and a present one, as sequences of length 0 or 1
Undefined == <<>>

Some(v) == <<v>>

(***************************************************************************)
(* MemStorage: person operations.                                          *)
(***************************************************************************)
\* variant: the id is taken from the size of the map
createPersonIdFromSize(ps, nextId, insertPerson) ==
    LET id == Len(ps) + 1
        person == [id |-> id] @@ insertPerson
    IN  [persons |-> MapSet(ps, person),
         currentPersonId |-> nextId + 1,
         result |-> person]

\* { ...insertPerson, id }: the explicit id overrides any spread key
createPerson(ps, nextId, insertPerson) ==
    LET id == nextId
        person == [id |-> id] @@ insertPerson
    IN  [persons |-> MapSet(ps, person),
         currentPersonId |-> nextId + 1,
         result |-> person]

\* variant: the update is merged into the existing record
updatePersonMerge(ps, id, update) ==
    IF ~MapHas(ps, id)
    THEN [persons |-> ps, result |-> Undefined]
    ELSE LET updatedPerson == [id |-> id] @@ update @@ MapGet(ps, id)
         IN  [persons |-> MapSet(ps, updatedPerson),
              result |-> Some(updatedPerson)]

\* variant: a missing person is created
updatePersonUpsert(ps, id, update) ==
    LET updatedPerson == [id |-> id] @@ update
    IN  [persons |-> MapSet(ps, updatedPerson),
         result |-> Some(updatedPerson)]

updatePerson(ps, id, update) ==
    IF ~MapHas(ps, id)
    THEN [persons |-> ps, result |-> Undefined]
    ELSE LET updatedPerson == [id |-> id] @@ update
         IN  [persons |-> MapSet(ps, updatedPerson),
              result |-> Some(updatedPerson)]

(***************************************************************************)
(* MemStorage: relationship operations.                                    *)
(***************************************************************************)
\* variant: every type is taken to be its own reciprocal
getReciprocalTypeSame(type) == type

getReciprocalType(type) ==
    CASE type = "parent" -> "child"
      [] type = "child" -> "parent"
      [] type = "spouse" -> "spouse"
      [] type = "sibling" -> "sibling"
      [] OTHER -> type

\* variant: the reciprocal keeps the direction of the requested record
addReciprocalSameDirection(st, insertRelationship, when, type) ==
    IF insertRelationship.type = when
    THEN LET reciprocal == [id |-> st.currentRelationshipId,
                            type |-> type,
                            personId |-> insertRelationship.personId,
                            relatedPersonId |-> insertRelationship.relatedPersonId]
         IN  [relationships |-> MapSet(st.relationships, reciprocal),
              currentRelationshipId |-> st.currentRelationshipId + 1]
    ELSE st

\* one of the four "if (insertRelationship.type === when)" blocks of
\* createRelationship; st is [relationships, currentRelationshipId]
addReciprocal(st, insertRelationship, when, type) ==
    IF insertRelationship.type = when
    THEN LET reciprocal == [id |-> st.currentRelationshipId,
                            type |-> type,
                            personId |-> insertRelationship.relatedPersonId,
                            relatedPersonId |-> insertRelationship.personId]
         IN  [relationships |-> MapSet(st.relationships, reciprocal),
              currentRelationshipId |-> st.currentRelationshipId + 1]
    ELSE st

\* variant: the ids are taken from the size of the map
createRelationshipIdFromSize(rels, nextId, insertRelationship) ==
    LET id == Len(rels) + 1
        relationship == [id |-> id] @@ insertRelationship
        s0 == [relationships |-> MapSet(rels, relationship),
               currentRelationshipId |-> id + 1]
        s1 == addReciprocal(s0, insertRelationship, "spouse", "spouse")
        s2 == addReciprocal(s1, insertRelationship, "parent", "child")
        s3 == addReciprocal(s2, insertRelationship, "child", "parent")
        s4 == addReciprocal(s3, insertRelationship, "sibling", "sibling")
    IN  [relationships |-> s4.relationships,
         currentRelationshipId |-> nextId + 2,
         result |-> relationship]

createRelationship(rels, nextId, insertRelationship) ==
    LET id == nextId
        relationship == [id |-> id] @@ insertRelationship
        s0 == [relationships |-> MapSet(rels, relationship),
               currentRelationshipId |-> nextId + 1]
        s1 == addReciprocal(s0, insertRelationship, "spouse", "spouse")
        s2 == addReciprocal(s1, insertRelationship, "parent", "child")
        s3 == addReciprocal(s2, insertRelationship, "child", "parent")
        s4 == addReciprocal(s3, insertRelationship, "sibling", "sibling")
    IN  [relationships |-> s4.relationships,
         currentRelationshipId |-> s4.currentRelationshipId,
         result |-> relationship]

\* variant: a reciprocal is recognised by its type and personId alone
deleteRelationshipAnyTarget(rels, id) ==
    IF ~MapHas(rels, id)
    THEN [relationships |-> rels, result |-> FALSE]
    ELSE LET relationship == MapGet(rels, id)
             reciprocalRelationships ==
                 SelectSeq(rels, LAMBDA rel :
                     /\ rel.personId = relationship.relatedPersonId
                     /\ rel.type = getReciprocalType(relationship.type))
             afterLoop ==
                 SelectSeq(rels, LAMBDA rel : rel.id \notin Ids(reciprocalRelationships))
         IN  [relationships |-> MapDelete(afterLoop, id),
              result |-> MapHas(afterLoop, id)]

\* the reciprocals are collected first, each is deleted by id, and the result
\* is that of the final Map.delete(id)
deleteRelationship(rels, id) ==
    IF ~MapHas(rels, id)
    THEN [relationships |-> rels, result |-> FALSE]
    ELSE LET relationship == MapGet(rels, id)
             reciprocalRelationships ==
                 SelectSeq(rels, LAMBDA rel :
                     /\ rel.personId = relationship.relatedPersonId
                     /\ rel.relatedPersonId = relationship.personId
                     /\ rel.type = getReciprocalType(relationship.type))
             afterLoop ==
                 SelectSeq(rels, LAMBDA rel : rel.id \notin Ids(reciprocalRelationships))
         IN  [relationships |-> MapDelete(afterLoop, id),
              result |-> MapHas(afterLoop, id)]

\* variant: the loop ends after its first iteration
deleteEachFirstOnly(rels, personRelationships) ==
    IF personRelationships = <<>>
    THEN rels
    ELSE deleteRelationship(rels, Head(personRelationships).id).relationships

\* for (const rel of personRelationships) await this.deleteRelationship(rel.id)
RECURSIVE deleteEach(_, _)
deleteEach(rels, personRelationships) ==
    IF personRelationships = <<>>
    THEN rels
    ELSE deleteEach(deleteRelationship(rels, Head(personRelationships).id).relationships,
                    Tail(personRelationships))

deletePerson(ps, rels, id) ==
    LET personRelationships ==
            SelectSeq(rels, LAMBDA r : r.personId = id \/ r.relatedPersonId = id)
    IN  [persons |-> MapDelete(ps, id),
         relationships |-> deleteEach(rels, personRelationships),
         personRelationships |-> personRelationships,
         result |-> MapHas(ps, id)]

getFamilyTreeData(ps, rels) == [persons |-> ps, relationships |-> rels]

(***************************************************************************)
(* The state after construction.                                           *)
(***************************************************************************)
NoOp == [op |-> "none"]

NotBuilt == <<>>

EmptyData == [persons |-> <<>>, relationships |-> <<>>]

\* no deletePerson call is suspended at an await
NotInFlight == [phase |-> "idle"]

StoreInit ==
    /\ inflight = NotInFlight
    /\ persons = <<>>
    /\ relationships = <<>>
    /\ currentPersonId = 1
    /\ currentRelationshipId = 1
    /\ lastOp = NoOp
    /\ issuedPersonIds = {}
    /\ issuedRelationshipIds = {}

NotExported == <<>>

TreeIdle ==
    /\ treeRoots = NotBuilt
    /\ treePersons = <<>>
    /\ layout = NotBuilt
    /\ exportFile = NotExported

Init ==
    /\ StoreInit
    /\ data = EmptyData
    /\ TreeIdle

(***************************************************************************)
(* The requests: each route handler with the store call it makes.  lastOp  *)
(* records the call, what it returned and the status the route answered.   *)
(***************************************************************************)
\* POST /api/persons
CreatePerson(insertPerson) ==
    /\ currentPersonId <= MaxPersonId
    /\ LET r == createPerson(persons, currentPersonId, insertPerson)
       IN  /\ persons' = r.persons
           /\ currentPersonId' = r.currentPersonId
           /\ issuedPersonIds' = issuedPersonIds \cup {r.result.id}
           /\ lastOp' = [op |-> "createPerson", person |-> insertPerson,
                         returned |-> r.result, status |-> 201]
    /\ UNCHANGED <<relationships, currentRelationshipId, issuedRelationshipIds>>

\* PUT /api/persons/:id
UpdatePerson(id, update) ==
    /\ LET r == updatePerson(persons, id, update)
       IN  /\ persons' = r.persons
           /\ lastOp' = [op |-> "updatePerson", id |-> id, person |-> update,
                         existingPerson |-> IF MapHas(persons, id)
                                            THEN Some(MapGet(persons, id))
                                            ELSE Undefined,
                         returned |-> r.result,
                         status |-> IF r.result = Undefined THEN 404 ELSE 200]
    /\ UNCHANGED <<relationships, currentPersonId, currentRelationshipId,
                   issuedPersonIds, issuedRelationshipIds>>

\* DELETE /api/persons/:id
DeletePerson(id) ==
    /\ LET r == deletePerson(persons, relationships, id)
       IN  /\ persons' = r.persons
           /\ relationships' = r.relationships
           /\ lastOp' = [op |-> "deletePerson", id |-> id,
                         cascaded |-> Len(r.personRelationships),
                         returned |-> r.result,
                         status |-> IF r.result THEN 204 ELSE 404]
    /\ UNCHANGED <<currentPersonId, currentRelationshipId,
                   issuedPersonIds, issuedRelationshipIds>>

\* variant: the request is refused with 400 unless both persons are in the
\* store and differ
CreateRelationshipChecked(insertRelationship) ==
    /\ currentRelationshipId + 1 <= MaxRelationshipId
    /\ IF /\ MapHas(persons, insertRelationship.personId)
          /\ MapHas(persons, insertRelationship.relatedPersonId)
          /\ insertRelationship.personId # insertRelationship.relatedPersonId
       THEN LET r == createRelationship(relationships, currentRelationshipId,
                                        insertRelationship)
            IN  /\ relationships' = r.relationships
                /\ currentRelationshipId' = r.currentRelationshipId
                /\ issuedRelationshipIds' =
                       issuedRelationshipIds \cup Ids(r.relationships)
                /\ lastOp' = [op |-> "createRelationship",
                              relationship |-> insertRelationship,
                              returned |-> r.result, status |-> 201]
       ELSE /\ lastOp' = [op |-> "createRelationship",
                          relationship |-> insertRelationship,
                          returned |-> Undefined, status |-> 400]
            /\ UNCHANGED <<relationships, currentRelationshipId,
                           issuedRelationshipIds>>
    /\ UNCHANGED <<persons, currentPersonId, issuedPersonIds>>

\* POST /api/relationships
CreateRelationship(insertRelationship) ==
    /\ currentRelationshipId + 1 <= MaxRelationshipId
    /\ LET r == createRelationship(relationships, currentRelationshipId,
                                   insertRelationship)
       IN  /\ relationships' = r.relationships
           /\ currentRelationshipId' = r.currentRelationshipId
           /\ issuedRelationshipIds' = issuedRelationshipIds \cup Ids(r.relationships)
           /\ lastOp' = [op |-> "createRelationship",
                         relationship |-> insertRelationship,
                         returned |-> r.result, status |-> 201]
    /\ UNCHANGED <<persons, currentPersonId, issuedPersonIds>>

\* DELETE /api/relationships/:id
DeleteRelationship(id) ==
    /\ LET r == deleteRelationship(relationships, id)
       IN  /\ relationships' = r.relationships
           /\ lastOp' = [op |-> "deleteRelationship", id |-> id,
                         returned |-> r.result,
                         status |-> IF r.result THEN 204 ELSE 404]
    /\ UNCHANGED <<persons, currentPersonId, currentRelationshipId,
                   issuedPersonIds, issuedRelationshipIds>>

RelationshipIds == 1..MaxRelationshipId

Next ==
    \/ \E p \in InsertPerson : CreatePerson(p) /\ UNCHANGED <<treeVars, inflight>>
    \/ \E id \in PersonIds, p \in InsertPerson : UpdatePerson(id, p) /\ UNCHANGED <<treeVars, inflight>>
    \/ \E id \in PersonIds : DeletePerson(id) /\ UNCHANGED <<treeVars, inflight>>
    \/ \E r \in InsertRelationship : CreateRelationship(r) /\ UNCHANGED <<treeVars, inflight>>
    \/ \E id \in RelationshipIds : DeleteRelationship(id) /\ UNCHANGED <<treeVars, inflight>>

Spec == Init /\ [][Next]_vars

(***************************************************************************)
(* Concurrent requests.  deletePerson is suspended at each await of its     *)
(* loop; the handler of another request that is already queued runs before  *)
(* the continuation.  inflight holds the suspended call: the records of its *)
(* snapshot that are still to be deleted, and, for the comparison with the  *)
(* serial runs, the store at its start and the request served meanwhile.    *)
(***************************************************************************)
Store == [persons |-> persons, relationships |-> relationships,
          currentRelationshipId |-> currentRelationshipId]

\* deletePerson up to its first await: the snapshot is taken and the first
\* deleteRelationship has run; with an empty snapshot the call runs to its end
StartDeletePerson(id) ==
    /\ inflight.phase = "idle"
    /\ LET personRelationships ==
               SelectSeq(relationships,
                         LAMBDA r : r.personId = id \/ r.relatedPersonId = id)
       IN  IF personRelationships = <<>>
           THEN /\ persons' = MapDelete(persons, id)
                /\ relationships' = relationships
                /\ lastOp' = [op |-> "deletePerson", id |-> id, cascaded |-> 0,
                              returned |-> MapHas(persons, id),
                              status |-> IF MapHas(persons, id) THEN 204 ELSE 404]
                /\ inflight' = [phase |-> "done", id |-> id, remaining |-> <<>>,
                                pre |-> Store, middle |-> Undefined]
           ELSE /\ persons' = persons
                /\ relationships' =
                       deleteRelationship(relationships,
                                          Head(personRelationships).id).relationships
                /\ lastOp' = lastOp
                /\ inflight' = [phase |-> "running", id |-> id,
                                remaining |-> Tail(personRelationships),
                                pre |-> Store, middle |-> Undefined]
    /\ UNCHANGED <<currentPersonId, currentRelationshipId,
                   issuedPersonIds, issuedRelationshipIds>>

\* POST /api/relationships, served while deletePerson is suspended
CreateRelationshipMeanwhile(insertRelationship) ==
    /\ inflight.phase = "running"
    /\ inflight.middle = Undefined
    /\ LET r == createRelationship(relationships, currentRelationshipId,
                                   insertRelationship)
       IN  /\ relationships' = r.relationships
           /\ currentRelationshipId' = r.currentRelationshipId
           /\ issuedRelationshipIds' = issuedRelationshipIds \cup Ids(r.relationships)
           /\ lastOp' = [op |-> "createRelationship",
                         relationship |-> insertRelationship,
                         returned |-> r.result, status |-> 201]
    /\ inflight' = [inflight EXCEPT !.middle =
                        Some([op |-> "createRelationship",
                              relationship |-> insertRelationship])]
    /\ UNCHANGED <<persons, currentPersonId, issuedPersonIds>>

\* DELETE /api/relationships/:id, served while deletePerson is suspended
DeleteRelationshipMeanwhile(id) ==
    /\ inflight.phase = "running"
    /\ inflight.middle = Undefined
    /\ LET r == deleteRelationship(relationships, id)
       IN  /\ relationships' = r.relationships
           /\ lastOp' = [op |-> "deleteRelationship", id |-> id,
                         returned |-> r.result,
                         status |-> IF r.result THEN 204 ELSE 404]
    /\ inflight' = [inflight EXCEPT !.middle =
                        Some([op |-> "deleteRelationship", id |-> id])]
    /\ UNCHANGED <<persons, currentPersonId, currentRelationshipId,
                   issuedPersonIds, issuedRelationshipIds>>

\* the continuation of deletePerson: the rest of the loop, persons.delete(id)
\* and the answer of the route
FinishDeletePerson ==
    /\ inflight.phase = "running"
    /\ relationships' = deleteEach(relationships, inflight.remaining)
    /\ persons' = MapDelete(persons, inflight.id)
    /\ lastOp' = [op |-> "deletePerson", id |-> inflight.id,
                  cascaded |-> Len(inflight.remaining) + 1,
                  returned |-> MapHas(persons, inflight.id),
                  status |-> IF MapHas(persons, inflight.id) THEN 204 ELSE 404]
    /\ inflight' = [inflight EXCEPT !.phase = "done", !.remaining = <<>>]
    /\ UNCHANGED <<currentPersonId, currentRelationshipId,
                   issuedPersonIds, issuedRelationshipIds>>

ConcurrentNext ==
    \/ /\ inflight.phase = "idle"
       /\ \E p \in InsertPerson : CreatePerson(p)
       /\ UNCHANGED <<treeVars, inflight>>
    \/ /\ inflight.phase = "idle"
       /\ \E r \in InsertRelationship : CreateRelationship(r)
       /\ UNCHANGED <<treeVars, inflight>>
    \/ \E id \in PersonIds : StartDeletePerson(id) /\ UNCHANGED treeVars
    \/ \E r \in InsertRelationship : CreateRelationshipMeanwhile(r) /\ UNCHANGED treeVars
    \/ \E id \in RelationshipIds : DeleteRelationshipMeanwhile(id) /\ UNCHANGED treeVars
    \/ FinishDeletePerson /\ UNCHANGED treeVars

SpecConcurrent == Init /\ [][ConcurrentNext]_vars

(***************************************************************************)
(* treeUtils: buildFamilyTree.  A FamilyTreePerson is the person record     *)
(* with four arrays; the arrays hold references to other FamilyTreePerson   *)
(* objects of personsMap, modelled as the ids that key them.                *)
(***************************************************************************)
\* { ...person, children: [], parents: [], spouses: [], siblings: [] }
FamilyTreePerson(person) ==
    [children |-> <<>>, parents |-> <<>>, spouses |-> <<>>, siblings |-> <<>>] @@ person

\* persons.forEach(person => personsMap.set(person.id, ...))
RECURSIVE buildPersonsMap(_, _)
buildPersonsMap(personsMap, ps) ==
    IF ps = <<>>
    THEN personsMap
    ELSE buildPersonsMap(MapSet(personsMap, FamilyTreePerson(Head(ps))), Tail(ps))

\* variant: the cases 'parent' and 'child' fill each other's array
connectSwapped(personsMap, relationship) ==
    IF ~MapHas(personsMap, relationship.personId)
       \/ ~MapHas(personsMap, relationship.relatedPersonId)
    THEN personsMap
    ELSE LET person == MapGet(personsMap, relationship.personId)
             related == relationship.relatedPersonId
             field == CASE relationship.type = "parent" -> "parents"
                        [] relationship.type = "child" -> "children"
                        [] relationship.type = "spouse" -> "spouses"
                        [] relationship.type = "sibling" -> "siblings"
                        [] OTHER -> "none"
         IN  IF field = "none"
             THEN personsMap
             ELSE MapSet(personsMap,
                         [person EXCEPT ![field] = Append(person[field], related)])

\* the body of relationships.forEach: the switch on relationship.type
connect(personsMap, relationship) ==
    IF ~MapHas(personsMap, relationship.personId)
       \/ ~MapHas(personsMap, relationship.relatedPersonId)
    THEN personsMap
    ELSE LET person == MapGet(personsMap, relationship.personId)
             related == relationship.relatedPersonId
             field == CASE relationship.type = "parent" -> "children"
                        [] relationship.type = "child" -> "parents"
                        [] relationship.type = "spouse" -> "spouses"
                        [] relationship.type = "sibling" -> "siblings"
                        [] OTHER -> "none"
         IN  IF field = "none"
             THEN personsMap
             ELSE MapSet(personsMap,
                         [person EXCEPT ![field] = Append(person[field], related)])

RECURSIVE connectAll(_, _)
connectAll(personsMap, rels) ==
    IF rels = <<>>
    THEN personsMap
    ELSE connectAll(connect(personsMap, Head(rels)), Tail(rels))

\* variant: the persons that have a 'parent' record are taken to have parents
personsWithParentsFromParentRecords(rels) ==
    {rels[i].personId : i \in {j \in 1..Len(rels) : rels[j].type = "parent"}}

\* relationships.filter(r => r.type === 'child').forEach(r => set.add(r.personId))
personsWithParents(rels) ==
    {rels[i].personId : i \in {j \in 1..Len(rels) : rels[j].type = "child"}}

\* Array.prototype.sort((a, b) => a.id - b.id): a stable sort by ascending id
RECURSIVE insertById(_, _)
insertById(sorted, v) ==
    IF sorted = <<>>
    THEN <<v>>
    ELSE IF sorted[Len(sorted)].id <= v.id
         THEN Append(sorted, v)
         ELSE Append(insertById(SubSeq(sorted, 1, Len(sorted) - 1), v),
                     sorted[Len(sorted)])

RECURSIVE sortById(_)
sortById(s) ==
    IF s = <<>>
    THEN <<>>
    ELSE insertById(sortById(SubSeq(s, 1, Len(s) - 1)), s[Len(s)])

\* the linked persons: personsMap after both forEach loops
linkedPersons(d) == connectAll(buildPersonsMap(<<>>, d.persons), d.relationships)

buildFamilyTree(d) ==
    IF Len(d.persons) = 0
    THEN <<>>
    ELSE LET personsMap == linkedPersons(d)
             withParents == personsWithParents(d.relationships)
             rootCandidates == SelectSeq(d.persons, LAMBDA p : p.id \notin withParents)
         IN  sortById([i \in 1..Len(rootCandidates) |->
                          MapGet(personsMap, rootCandidates[i].id)])

(***************************************************************************)
(* The inputs of buildFamilyTree: the data the client holds.  The persons   *)
(* have distinct ids, in any order; a relationship may name a person that   *)
(* is not in the list and need not have a mirror.                           *)
(***************************************************************************)
TreePersonIds == 1..MaxTreePersonId

\* the person record with the given id
TreePerson(id) ==
    IF id % 2 = 1
    THEN [id |-> id, name |-> "Ann", gender |-> "female"]
    ELSE [id |-> id, name |-> "Bob"]

\* the sequences of distinct ids of the given length
DistinctIdSeqs(n) ==
    {s \in [1..n -> TreePersonIds] : \A i, j \in 1..n : i # j => s[i] # s[j]}

TreePersonLists ==
    UNION {{[i \in 1..n |-> TreePerson(ids[i])] : ids \in DistinctIdSeqs(n)} :
           n \in 0..MaxTreePersonId}

TreeRelationshipLists ==
    UNION {{[i \in 1..n |-> [id |-> i] @@ rs[i]] :
               rs \in [1..n -> [type : RelationshipTypes,
                                personId : TreePersonIds,
                                relatedPersonId : TreePersonIds]]} :
           n \in 0..MaxTreeRelationships}

TreeInit ==
    /\ StoreInit
    /\ data \in [persons : TreePersonLists, relationships : TreeRelationshipLists]
    /\ TreeIdle

\* FamilyTreeView: const treeRoots = buildFamilyTree(data); treePersons holds
\* the FamilyTreePerson objects the roots and their arrays refer to
BuildFamilyTree ==
    /\ treeRoots = NotBuilt
    /\ exportFile = NotExported
    /\ treeRoots' = Some(buildFamilyTree(data))
    /\ treePersons' = linkedPersons(data)
    /\ UNCHANGED <<data, layout, exportFile>>

TreeNext == BuildFamilyTree /\ UNCHANGED storeVars

SpecTree == TreeInit /\ [][TreeNext]_vars

(***************************************************************************)
(* Store data for the tree builder, the layout and the export: what         *)
(* getFamilyTreeData returns after persons 1..n were created and            *)
(* createRelationship was called while its ids stay within                  *)
(* MaxRelationshipId, followed by at most one deleteRelationship.  The      *)
(* relationships may name persons that were never created.                  *)
(***************************************************************************)
ForestPersonIds == 1..MaxForestPersonId

ForestInsertRelationship ==
    [type : RelationshipTypes, personId : ForestPersonIds,
     relatedPersonId : ForestPersonIds]

\* the relationship maps after at most n calls of createRelationship
RECURSIVE AfterCreateRelationships(_)
AfterCreateRelationships(n) ==
    IF n = 0
    THEN {[relationships |-> <<>>, currentRelationshipId |-> 1]}
    ELSE LET before == AfterCreateRelationships(n - 1)
         IN  before \cup
             {LET r == createRelationship(s.relationships, s.currentRelationshipId, ins)
              IN  [relationships |-> r.relationships,
                   currentRelationshipId |-> r.currentRelationshipId] :
                  s \in {t \in before : t.currentRelationshipId + 1 <= MaxRelationshipId},
                  ins \in ForestInsertRelationship}

ForestRelationships ==
    LET created == {s.relationships : s \in AfterCreateRelationships(MaxRelationshipId)}
    IN  created \cup
        {deleteRelationship(rels, id).relationships :
            rels \in created, id \in 1..MaxRelationshipId}

\* persons 1..n as createPerson stores them
ForestPersons ==
    {[i \in 1..n |-> TreePerson(i)] : n \in 0..MaxForestPersonId}

ForestData ==
    {getFamilyTreeData(ps, rels) : ps \in ForestPersons, rels \in ForestRelationships}

ForestInit ==
    /\ StoreInit
    /\ data \in ForestData
    /\ TreeIdle

(***************************************************************************)
(* The layout.  A node holds its person's id; node.children and node.spouse *)
(* hold positions in the nodes array.  The persons of the forest are        *)
(* objects of personsMap, so a child or a spouse is looked up there by id.  *)
(* The field depth records the deepest call of processNode.                 *)
(***************************************************************************)
NODE_WIDTH == 256
NODE_HEIGHT == 120
LEVEL_HEIGHT == 160
SIBLING_SPACING == 40
SPOUSE_SPACING == 32

Max(a, b) == IF a >= b THEN a ELSE b

\* nodes.some(n => n.person.id === id)
InNodes(nodes, id) == \E i \in 1..Len(nodes) : nodes[i].person = id

\* variant: every child is laid out, also one that already has a node
validChildrenUnfiltered(person, nodes) == person.children

\* person.children?.filter(child => !nodes.some(n => n.person.id === child.id))
validChildren(person, nodes) ==
    SelectSeq(person.children, LAMBDA child : ~InNodes(nodes, child))

\* variant: the spouse node does not count for the width
totalWidthWithoutSpouse(hasSpouse) == NODE_WIDTH

\* let totalWidth = NODE_WIDTH; ... totalWidth += NODE_WIDTH + SPOUSE_SPACING
totalWidth(hasSpouse) ==
    IF hasSpouse THEN NODE_WIDTH + NODE_WIDTH + SPOUSE_SPACING ELSE NODE_WIDTH

\* validChildren.length * NODE_WIDTH + (validChildren.length - 1) * SIBLING_SPACING
childrenRowWidth(n) == n * NODE_WIDTH + (n - 1) * SIBLING_SPACING

\* centerX: the middle of the node, or of the node and its spouse node
centerX(node, nodes) ==
    IF node.spouse # Undefined
    THEN node.x + ((nodes[node.spouse[1]].x + nodes[node.spouse[1]].width - node.x) \div 2)
    ELSE node.x + (node.width \div 2)

\* variant: the offset is not raised to 0
childXOffsetUnclamped(node, nodes, n) ==
    centerX(node, nodes) - (childrenRowWidth(n) \div 2)

\* childXOffset, after Math.max(0, childXOffset)
childXOffset(node, nodes, n) ==
    Max(0, centerX(node, nodes) - (childrenRowWidth(n) \div 2))

\* firstChildX: the centre x of the first child
firstChildX(xOffset) == xOffset + (NODE_WIDTH \div 2)

\* variant: the spacing between the children is left out
lastChildXWithoutSpacing(xOffset, n) ==
    xOffset + (n * NODE_WIDTH) - (NODE_WIDTH \div 2)

\* lastChildX: the centre x of the last child
lastChildX(xOffset, n) ==
    xOffset + (n * NODE_WIDTH) + ((n - 1) * SIBLING_SPACING) - (NODE_WIDTH \div 2)

EmptyLayout ==
    [nodes |-> <<>>, connectors |-> <<>>, maxWidth |-> 0, maxHeight |-> 0, depth |-> 0]

RECURSIVE processNode(_, _, _, _, _, _)
RECURSIVE processChildren(_, _, _, _, _, _, _, _, _)

\* validChildren.forEach((child, index) => ...), from index on
processChildren(L, personsMap, nodeIdx, children, index, xOffset, parentY, level, depth) ==
    IF index >= Len(children)
    THEN L
    ELSE LET childX == xOffset + (index * (NODE_WIDTH + SIBLING_SPACING))
             r == processNode(L, personsMap, children[index + 1], level + 1, childX,
                              depth + 1)
             childNode == r.layout.nodes[r.node]
             L2 == [r.layout EXCEPT
                       !.nodes[nodeIdx].children = Append(@, r.node),
                       !.connectors = Append(@,
                           [type |-> "vertical",
                            x1 |-> childX + (NODE_WIDTH \div 2),
                            y1 |-> parentY + (LEVEL_HEIGHT \div 2),
                            x2 |-> childX + (NODE_WIDTH \div 2),
                            y2 |-> childNode.y]),
                       !.maxWidth = Max(@, childX + NODE_WIDTH),
                       !.maxHeight = Max(@, childNode.y + NODE_HEIGHT)]
         IN  processChildren(L2, personsMap, nodeIdx, children, index + 1, xOffset,
                             parentY, level, depth)

\* processNode(person, level, xOffset); the result is the layout so far and
\* the position of the returned node.  A call deeper than the number of
\* persons does not descend further.
processNode(L, personsMap, personId, level, xOffset, depth) ==
    LET person == MapGet(personsMap, personId)
        nodeIdx == Len(L.nodes) + 1
        hasSpouse == Len(person.spouses) > 0
        node == [x |-> xOffset, y |-> level * LEVEL_HEIGHT, person |-> personId,
                 width |-> NODE_WIDTH, height |-> NODE_HEIGHT, level |-> level,
                 children |-> <<>>,
                 spouse |-> IF hasSpouse THEN Some(nodeIdx + 1) ELSE Undefined]
        spouseNode == [x |-> xOffset + NODE_WIDTH + SPOUSE_SPACING,
                       y |-> level * LEVEL_HEIGHT, person |-> person.spouses[1],
                       width |-> NODE_WIDTH, height |-> NODE_HEIGHT, level |-> level]
        nodes1 == IF hasSpouse
                  THEN L.nodes \o <<node, spouseNode>>
                  ELSE Append(L.nodes, node)
        connectors1 ==
            IF hasSpouse
            THEN Append(L.connectors,
                        [type |-> "horizontal",
                         x1 |-> node.x + node.width,
                         y1 |-> node.y + (node.height \div 2),
                         x2 |-> spouseNode.x,
                         y2 |-> spouseNode.y + (spouseNode.height \div 2)])
            ELSE L.connectors
        children == validChildren(person, nodes1)
        n == Len(children)
        xChildren == childXOffset(node, nodes1, n)
        parentY == node.y + node.height
        center == centerX(node, nodes1)
        connectors2 ==
            Append(connectors1,
                   [type |-> "vertical", x1 |-> center, y1 |-> parentY,
                    x2 |-> center, y2 |-> parentY + (LEVEL_HEIGHT \div 2)])
        connectors3 ==
            IF n > 1
            THEN Append(connectors2,
                        [type |-> "horizontal",
                         x1 |-> firstChildX(xChildren),
                         y1 |-> parentY + (LEVEL_HEIGHT \div 2),
                         x2 |-> lastChildX(xChildren, n),
                         y2 |-> parentY + (LEVEL_HEIGHT \div 2)])
            ELSE connectors2
        L1 == [L EXCEPT !.nodes = nodes1, !.connectors = connectors1,
                        !.depth = Max(@, depth)]
        L3 == IF n > 0 /\ depth <= Len(personsMap)
              THEN processChildren([L1 EXCEPT !.connectors = connectors3],
                                   personsMap, nodeIdx, children, 0, xChildren,
                                   parentY, level, depth)
              ELSE L1
    IN  [layout |-> [L3 EXCEPT
                        !.maxWidth = Max(@, xOffset + totalWidth(hasSpouse)),
                        !.maxHeight = Max(@, (level * LEVEL_HEIGHT) + NODE_HEIGHT)],
         node |-> nodeIdx]

\* let xPos = 0; rootPersons.forEach(rootPerson => ...), from the i-th root on
RECURSIVE processRoots(_, _, _, _, _)
processRoots(L, personsMap, rootPersons, i, xPos) ==
    IF i > Len(rootPersons)
    THEN L
    ELSE LET r == processNode(L, personsMap, rootPersons[i].id, 0, xPos, 1)
         IN  processRoots(r.layout, personsMap, rootPersons, i + 1,
                          r.layout.maxWidth + SIBLING_SPACING)

layoutFamilyTree(rootPersons, personsMap) ==
    LET L == processRoots(EmptyLayout, personsMap, rootPersons, 1, 0)
    IN  [nodes |-> L.nodes,
         connectors |-> L.connectors,
         dimensions |-> [width |-> L.maxWidth, height |-> L.maxHeight],
         depth |-> L.depth]

\* FamilyTreeView: treeLayout = layoutFamilyTree(treeRoots)
LayoutFamilyTree ==
    /\ treeRoots # NotBuilt
    /\ layout = NotBuilt
    /\ layout' = Some(layoutFamilyTree(treeRoots[1], treePersons))
    /\ UNCHANGED <<data, treeRoots, treePersons, exportFile>>
    /\ UNCHANGED storeVars

(***************************************************************************)
(* Families for the layout: all persons are in the data, and the records    *)
(* are those the store holds after up to three createRelationship calls of   *)
(* type parent or spouse, the two types that the layout reads (a call of     *)
(* type child stores the same pair of records as the parent call with the    *)
(* persons exchanged).                                                       *)
(***************************************************************************)
\* createRelationship is called while both ids it would assign are at most this
MaxLayoutRelationshipId == 6

LayoutInsertRelationship ==
    [type : {"parent", "spouse"}, personId : ForestPersonIds,
     relatedPersonId : ForestPersonIds]

RECURSIVE AfterLayoutCreates(_)
AfterLayoutCreates(n) ==
    IF n = 0
    THEN {[relationships |-> <<>>, currentRelationshipId |-> 1]}
    ELSE LET before == AfterLayoutCreates(n - 1)
         IN  before \cup
             {LET r == createRelationship(s.relationships, s.currentRelationshipId, ins)
              IN  [relationships |-> r.relationships,
                   currentRelationshipId |-> r.currentRelationshipId] :
                  s \in {t \in before :
                            t.currentRelationshipId + 1 <= MaxLayoutRelationshipId},
                  ins \in LayoutInsertRelationship}

LayoutData ==
    {getFamilyTreeData([i \in 1..MaxForestPersonId |-> TreePerson(i)], s.relationships) :
        s \in AfterLayoutCreates(MaxLayoutRelationshipId)}

LayoutInit ==
    /\ StoreInit
    /\ data \in LayoutData
    /\ TreeIdle

LayoutNext ==
    \/ BuildFamilyTree /\ UNCHANGED storeVars
    \/ LayoutFamilyTree

SpecLayout == LayoutInit /\ [][LayoutNext]_vars

(***************************************************************************)
(* Export and import.  A JSON document is modelled by its members: an       *)
(* object is the set of its <<key, kind, text>> members, an array the       *)
(* sequence of its elements, a number its decimal text.                     *)
(***************************************************************************)
NumberKeys == {"id", "personId", "relatedPersonId"}

JsonNumbers == 0..(MaxForestPersonId + MaxRelationshipId)

\* JSON.stringify of a flat object
JsonStringifyObject(rec) ==
    {IF k \in NumberKeys
     THEN <<k, "number", ToString(rec[k])>>
     ELSE <<k, "string", rec[k]>> : k \in DOMAIN rec}

\* JSON.parse of a flat object
JsonParseObject(members) ==
    [k \in {m[1] : m \in members} |->
        LET m == CHOOSE x \in members : x[1] = k
        IN  IF m[2] = "number"
            THEN CHOOSE n \in JsonNumbers : ToString(n) = m[3]
            ELSE m[3]]

\* JSON.stringify(data, null, 2)
flattenTreeForExport(d) ==
    [persons |-> [i \in 1..Len(d.persons) |-> JsonStringifyObject(d.persons[i])],
     relationships |->
         [i \in 1..Len(d.relationships) |-> JsonStringifyObject(d.relationships[i])]]

\* JSON.parse and the test for the two keys; null is Undefined
parseImportedTreeData(jsonData) ==
    IF ~({"persons", "relationships"} \subseteq DOMAIN jsonData)
    THEN Undefined
    ELSE Some([persons |-> [i \in 1..Len(jsonData.persons) |->
                              JsonParseObject(jsonData.persons[i])],
               relationships |-> [i \in 1..Len(jsonData.relationships) |->
                                    JsonParseObject(jsonData.relationships[i])]])

\* const { id, ...rest } = record
WithoutId(rec) == [k \in DOMAIN rec \ {"id"} |-> rec[k]]

\* for (const person of parsedData.persons) await addPerson(personData);
\* st is the store: [persons, relationships, currentPersonId, currentRelationshipId]
RECURSIVE importPersons(_, _)
importPersons(st, ps) ==
    IF ps = <<>>
    THEN st
    ELSE LET r == createPerson(st.persons, st.currentPersonId, WithoutId(Head(ps)))
         IN  importPersons([st EXCEPT !.persons = r.persons,
                                      !.currentPersonId = r.currentPersonId],
                           Tail(ps))

\* for (const relationship of parsedData.relationships)
\*     await addRelationship(relationshipData);
RECURSIVE importRelationships(_, _)
importRelationships(st, rels) ==
    IF rels = <<>>
    THEN st
    ELSE LET r == createRelationship(st.relationships, st.currentRelationshipId,
                                     WithoutId(Head(rels)))
         IN  importRelationships(
                 [st EXCEPT !.relationships = r.relationships,
                            !.currentRelationshipId = r.currentRelationshipId],
                 Tail(rels))

importFamilyTree(st, jsonData) ==
    LET parsedData == parseImportedTreeData(jsonData)
    IN  IF parsedData = Undefined
        THEN [store |-> st, result |-> FALSE]
        ELSE [store |-> importRelationships(importPersons(st, parsedData[1].persons),
                                            parsedData[1].relationships),
              result |-> TRUE]

\* exportFamilyTree: the downloaded file family-tree.json
ExportFamilyTree ==
    /\ exportFile = NotExported
    /\ treeRoots = NotBuilt
    /\ exportFile' = Some(flattenTreeForExport(data))
    /\ UNCHANGED <<data, treeRoots, treePersons, layout>>
    /\ UNCHANGED storeVars

\* importFamilyTree(jsonData) with the exported file, against the server and
\* its store; it ends with setData of the reloaded /api/familytree
ImportFamilyTree ==
    /\ exportFile # NotExported
    /\ lastOp = NoOp
    /\ LET r == importFamilyTree([persons |-> persons,
                                  relationships |-> relationships,
                                  currentPersonId |-> currentPersonId,
                                  currentRelationshipId |-> currentRelationshipId],
                                 exportFile[1])
       IN  /\ persons' = r.store.persons
           /\ relationships' = r.store.relationships
           /\ currentPersonId' = r.store.currentPersonId
           /\ currentRelationshipId' = r.store.currentRelationshipId
           /\ issuedPersonIds' = issuedPersonIds \cup Ids(r.store.persons)
           /\ issuedRelationshipIds' =
                  issuedRelationshipIds \cup Ids(r.store.relationships)
           /\ lastOp' = [op |-> "importFamilyTree", returned |-> r.result]
           /\ data' = IF r.result
                      THEN getFamilyTreeData(r.store.persons, r.store.relationships)
                      ELSE data
    /\ UNCHANGED <<treeRoots, treePersons, layout, exportFile, inflight>>

ForestNext ==
    \/ BuildFamilyTree /\ UNCHANGED storeVars
    \/ LayoutFamilyTree
    \/ ExportFamilyTree
    \/ ImportFamilyTree

SpecForest == ForestInit /\ [][ForestNext]_vars

(***************************************************************************)
(* Properties of the record store.                                         *)
(***************************************************************************)
\* the reciprocal of each relationship type, as the data model states it
ReciprocalType ==
    [parent |-> "child", child |-> "parent", spouse |-> "spouse", sibling |-> "sibling"]

\* m is a mirror of r: the reciprocal type in the opposite direction
IsMirror(m, r) ==
    /\ m.type = ReciprocalType[r.type]
    /\ m.personId = r.relatedPersonId
    /\ m.relatedPersonId = r.personId

Involves(r, id) == r.personId = id \/ r.relatedPersonId = id

\* C1: in every reachable state every stored relationship record (X, A, B)
\* has a stored mirror record (reciprocal of X, B, A).
C1_EveryRecordHasMirror ==
    \A r \in Range(relationships) : \E m \in Range(relationships) : IsMirror(m, r)

\* C2: createRelationship(type, A, B) appends exactly two records, the
\* requested one (which it returns) and its mirror, and leaves every record
\* that was stored before in place and unchanged.
C2_CreateAddsRequestedAndMirror ==
    [][lastOp'.op = "createRelationship" =>
         LET ins == lastOp'.relationship
             ret == lastOp'.returned
             n == Len(relationships)
         IN  /\ Len(relationships') = n + 2
             /\ SubSeq(relationships', 1, n) = relationships
             /\ relationships'[n + 1] = ret
             /\ ret.type = ins.type
             /\ ret.personId = ins.personId
             /\ ret.relatedPersonId = ins.relatedPersonId
             /\ IsMirror(relationships'[n + 2], ins)
             /\ DOMAIN relationships'[n + 2] = DOMAIN ret]_vars

C2_Witness ==
    /\ lastOp.op = "createRelationship"
    /\ lastOp.relationship.type = "child"
    /\ Len(relationships) = 4

\* C3: after deleteRelationship(id) of a stored record (X, A, B) the store
\* holds neither the record with that id nor any mirror (reciprocal of X, B, A).
C3_DeleteRemovesRecordAndMirrors ==
    [][(lastOp'.op = "deleteRelationship" /\ MapHas(relationships, lastOp'.id)) =>
         LET r == MapGet(relationships, lastOp'.id)
         IN  /\ ~MapHas(relationships', lastOp'.id)
             /\ \A m \in Range(relationships') : ~IsMirror(m, r)]_vars

C3_Witness ==
    /\ lastOp.op = "deleteRelationship"
    /\ lastOp.status = 204
    /\ Len(relationships) = 2
    /\ currentRelationshipId = 5

\* C4: after deletePerson(id) the person is absent and no stored relationship
\* record has id as its personId or relatedPersonId.
C4_DeletePersonCascades ==
    lastOp.op = "deletePerson" =>
        /\ ~MapHas(persons, lastOp.id)
        /\ \A r \in Range(relationships) : ~Involves(r, lastOp.id)

C4_Witness ==
    /\ lastOp.op = "deletePerson"
    /\ lastOp.returned
    /\ lastOp.cascaded = 4

\* C5: createPerson returns an id greater than every id an earlier createPerson
\* returned (also after deletions), and updatePerson changes no person's id.
C5_PersonIdsNeverReused ==
    [][/\ lastOp'.op = "createPerson" =>
            \A i \in issuedPersonIds : lastOp'.returned.id > i
       /\ lastOp'.op = "updatePerson" =>
            /\ Len(persons') = Len(persons)
            /\ \A i \in 1..Len(persons) : persons'[i].id = persons[i].id
            /\ lastOp'.returned # Undefined => lastOp'.returned[1].id = lastOp'.id]_vars

C5_Witness ==
    /\ lastOp.op = "createPerson"
    /\ lastOp.returned.id = 2
    /\ ~MapHas(persons, 1)

\* C6: every record createRelationship stores, the requested one and its mirror,
\* has an id that no relationship record was given before, deleted ones included.
C6_RelationshipIdsNeverReused ==
    [][lastOp'.op = "createRelationship" =>
         LET ret == lastOp'.returned
             new == Range(relationships') \ Range(relationships)
         IN  /\ ret.id \notin issuedRelationshipIds
             /\ \A m \in new : m.id \notin issuedRelationshipIds
             /\ \E m \in new : m.id # ret.id]_vars

C6_Witness ==
    /\ lastOp.op = "createRelationship"
    /\ lastOp.returned.id = 3
    /\ Len(relationships) = 2

\* C7: updatePerson(id, data) on an existing person stores and returns exactly
\* the supplied fields plus the id; every other person and every relationship
\* is unchanged.
C7_UpdateIsFullReplace ==
    [][(lastOp'.op = "updatePerson" /\ MapHas(persons, lastOp'.id)) =>
         LET supplied == lastOp'.person
             stored == MapGet(persons', lastOp'.id)
         IN  /\ lastOp'.returned = Some(stored)
             /\ DOMAIN stored = DOMAIN supplied \cup {"id"}
             /\ stored.id = lastOp'.id
             /\ \A f \in DOMAIN supplied \ {"id"} : stored[f] = supplied[f]
             /\ Len(persons') = Len(persons)
             /\ \A i \in 1..Len(persons) :
                    persons[i].id # lastOp'.id => persons'[i] = persons[i]
             /\ relationships' = relationships]_vars

C7_Witness ==
    /\ lastOp.op = "updatePerson"
    /\ lastOp.existingPerson = Some([id |-> 1, name |-> "Ann", gender |-> "female"])
    /\ lastOp.returned = Some([id |-> 1, name |-> "Bob"])
    /\ Len(persons) = 2
    /\ relationships # <<>>

\* C8: updatePerson for an id that is not in the store returns undefined, the
\* route answers 404, and persons, relationships and both id counters are
\* unchanged.
C8_UpdateMissingChangesNothing ==
    [][(lastOp'.op = "updatePerson" /\ ~MapHas(persons, lastOp'.id)) =>
         /\ lastOp'.returned = Undefined
         /\ lastOp'.status = 404
         /\ persons' = persons
         /\ relationships' = relationships
         /\ currentPersonId' = currentPersonId
         /\ currentRelationshipId' = currentRelationshipId]_vars

C8_Witness ==
    /\ lastOp.op = "updatePerson"
    /\ lastOp.status = 404
    /\ persons # <<>>
    /\ relationships # <<>>

\* C9: every createRelationship request succeeds (201), whether or not its
\* personId and relatedPersonId are ids of stored persons and also when they
\* are equal, and the store then holds the requested record and its mirror.
C9_NoReferentialIntegrity ==
    lastOp.op = "createRelationship" =>
        /\ lastOp.status = 201
        /\ lastOp.returned \in Range(relationships)
        /\ lastOp.returned.personId = lastOp.relationship.personId
        /\ lastOp.returned.relatedPersonId = lastOp.relationship.relatedPersonId
        /\ \E m \in Range(relationships) :
               m.id # lastOp.returned.id /\ IsMirror(m, lastOp.relationship)

\* a relationship of a person to itself, created when the store has no person
C9_Witness ==
    /\ lastOp.op = "createRelationship"
    /\ lastOp.relationship.personId = lastOp.relationship.relatedPersonId
    /\ lastOp.relationship.personId \notin issuedPersonIds
    /\ persons = <<>>

\* a relationship that names a person who has been deleted
C9_WitnessDeleted ==
    /\ lastOp.op = "createRelationship"
    /\ lastOp.relationship.personId \in issuedPersonIds
    /\ ~MapHas(persons, lastOp.relationship.personId)

\* C14: deleteRelationship(id) returns true exactly when a record with that id
\* was stored when the call began (204, otherwise 404), and when it returns
\* false the store is unchanged.
C14_DeleteRelationshipResult ==
    [][lastOp'.op = "deleteRelationship" =>
         /\ lastOp'.returned = MapHas(relationships, lastOp'.id)
         /\ lastOp'.status = (IF MapHas(relationships, lastOp'.id) THEN 204 ELSE 404)
         /\ (~lastOp'.returned => relationships' = relationships)]_vars

\* C15: deletePerson(id) returns true exactly when a person with that id was
\* stored when the call began, and when it returns false no person and no
\* relationship record has been removed.
C15_DeletePersonResult ==
    [][lastOp'.op = "deletePerson" =>
         /\ lastOp'.returned = MapHas(persons, lastOp'.id)
         /\ (~lastOp'.returned =>
                /\ persons' = persons
                /\ relationships' = relationships)]_vars

\* C16: deletePerson(id) keeps every other person record and every
\* relationship record that does not name id, unchanged, and changes neither
\* id counter.
C16_DeletePersonFrame ==
    [][lastOp'.op = "deletePerson" =>
         /\ SelectSeq(persons, LAMBDA p : p.id # lastOp'.id)
              = SelectSeq(persons', LAMBDA p : p.id # lastOp'.id)
         /\ SelectSeq(relationships, LAMBDA r : ~Involves(r, lastOp'.id))
              = SelectSeq(relationships', LAMBDA r : ~Involves(r, lastOp'.id))
         /\ currentPersonId' = currentPersonId
         /\ currentRelationshipId' = currentRelationshipId]_vars

\* a cascade that removes two records and leaves a person and two records
C16_Witness ==
    /\ lastOp.op = "deletePerson"
    /\ lastOp.status = 204
    /\ lastOp.cascaded = 2
    /\ Len(relationships) = 2
    /\ Len(persons) = 1

\* C17: no two stored relationship records have the same type, personId and
\* relatedPersonId.
C17_NoDuplicateRelationships ==
    \A i, j \in 1..Len(relationships) :
        (/\ relationships[i].type = relationships[j].type
         /\ relationships[i].personId = relationships[j].personId
         /\ relationships[i].relatedPersonId = relationships[j].relatedPersonId)
        => i = j

\* the store after one request ran alone, from start to end
AfterRequest(st, request) ==
    CASE request.op = "createRelationship" ->
           LET r == createRelationship(st.relationships, st.currentRelationshipId,
                                       request.relationship)
           IN  [st EXCEPT !.relationships = r.relationships,
                          !.currentRelationshipId = r.currentRelationshipId]
      [] request.op = "deleteRelationship" ->
           [st EXCEPT !.relationships =
                          deleteRelationship(st.relationships, request.id).relationships]
      [] request.op = "deletePerson" ->
           LET r == deletePerson(st.persons, st.relationships, request.id)
           IN  [st EXCEPT !.persons = r.persons, !.relationships = r.relationships]

\* the stores that the serial runs of deletePerson and the request served
\* meanwhile end in
SerialOutcomes(call) ==
    LET delete == [op |-> "deletePerson", id |-> call.id]
    IN  IF call.middle = Undefined
        THEN {AfterRequest(call.pre, delete)}
        ELSE {AfterRequest(AfterRequest(call.pre, delete), call.middle[1]),
              AfterRequest(AfterRequest(call.pre, call.middle[1]), delete)}

\* C13: when a deletePerson call and the request served during it have both
\* ended, the store is the one that running the two one at a time, in one of
\* the two orders, ends in.
C13_ConcurrentRequestsSerializable ==
    inflight.phase = "done" => Store \in SerialOutcomes(inflight)

(***************************************************************************)
(* Properties of the tree builder.                                         *)
(***************************************************************************)
\* the persons of d with no record of type 'child' whose personId is their id
PersonsWithoutRecordedParent(d) ==
    {p \in Range(d.persons) :
        ~\E r \in Range(d.relationships) : r.type = "child" /\ r.personId = p.id}

RelatedInRecordOrder(d, type, id) ==
    LET recs == SelectSeq(d.relationships, LAMBDA r :
                    /\ r.type = type
                    /\ r.personId = id
                    /\ r.personId \in Ids(d.persons)
                    /\ r.relatedPersonId \in Ids(d.persons))
    IN  [i \in 1..Len(recs) |-> recs[i].relatedPersonId]

\* C11: after buildFamilyTree every person p has children = the q of the
\* records (parent, p, q), parents = those of (child, p, q), spouses = those of
\* (spouse, p, q) and siblings = those of (sibling, p, q), in record order,
\* where records naming a person that is not in data.persons are left out.
C11_DerivedArrays ==
    treeRoots # NotBuilt =>
        /\ Ids(treePersons) = Ids(data.persons)
        /\ \A i \in 1..Len(treePersons) :
               LET p == treePersons[i]
               IN  /\ p.children = RelatedInRecordOrder(data, "parent", p.id)
                   /\ p.parents = RelatedInRecordOrder(data, "child", p.id)
                   /\ p.spouses = RelatedInRecordOrder(data, "spouse", p.id)
                   /\ p.siblings = RelatedInRecordOrder(data, "sibling", p.id)
        /\ \A i \in 1..Len(treeRoots[1]) :
               treeRoots[1][i] = MapGet(treePersons, treeRoots[1][i].id)

\* person 1 has the children 2 and 1 (itself), in the order of the records
C11_Witness ==
    /\ treeRoots # NotBuilt
    /\ \E i \in 1..Len(treePersons) :
           /\ treePersons[i].id = 1
           /\ treePersons[i].children = <<2, 1>>
           /\ treePersons[i].parents = <<1>>

\* a record (parent, 1, 3) of a person that is not in data.persons is left out
C11_WitnessMissingPerson ==
    /\ treeRoots # NotBuilt
    /\ Len(data.persons) = 2
    /\ \E r \in Range(data.relationships) :
           r.type = "parent" /\ r.personId = 1 /\ r.relatedPersonId = 3
    /\ \E i \in 1..Len(treePersons) :
           /\ treePersons[i].id = 1
           /\ treePersons[i].children = <<2>>

(***************************************************************************)
(* Properties of export and import.                                        *)
(***************************************************************************)
\* the number of records (type, a, b) in a relationship list
CountRecords(rels, type, a, b) ==
    Cardinality({i \in 1..Len(rels) :
        /\ rels[i].type = type
        /\ rels[i].personId = a
        /\ rels[i].relatedPersonId = b})

\* C12: after the exported file was imported into the empty store, the store
\* has as many persons as the exported data and, between the i-th and the j-th
\* person, as many records of every type as the exported data has between its
\* i-th and j-th person.
C12_ExportImportRoundTrip ==
    lastOp.op = "importFamilyTree" =>
        LET exported == parseImportedTreeData(exportFile[1])[1]
        IN  /\ lastOp.returned
            /\ Len(persons) = Len(exported.persons)
            /\ \A i, j \in 1..Len(exported.persons) :
                   \A type \in RelationshipTypes :
                       CountRecords(relationships, type, persons[i].id, persons[j].id)
                         = CountRecords(exported.relationships, type,
                                        exported.persons[i].id, exported.persons[j].id)

(***************************************************************************)
(* Properties of the layout.                                                *)
(***************************************************************************)
\* the nodes that processNode returned: they have a children array
ParentNodes(lay) == {i \in 1..Len(lay.nodes) : "children" \in DOMAIN lay.nodes[i]}

\* the nodes with at least one laid-out child
NodesWithChildren(lay) == {i \in ParentNodes(lay) : lay.nodes[i].children # <<>>}

\* the left edge of the first and the right edge of the last laid-out child
RowLeft(lay, i) == lay.nodes[lay.nodes[i].children[1]].x

RowRight(lay, i) ==
    LET last == lay.nodes[lay.nodes[i].children[Len(lay.nodes[i].children)]]
    IN  last.x + last.width

\* C18: the layout of the forest built from store-reachable data ends: no
\* chain of nested processNode calls is longer than the number of persons.
C18_LayoutTerminates ==
    layout # NotBuilt => layout[1].depth <= Len(treePersons)

\* a laid-out person who is their own parent, below a root
C18_Witness ==
    /\ layout # NotBuilt
    /\ \E i \in 1..Len(layout[1].nodes) :
          LET person == MapGet(treePersons, layout[1].nodes[i].person)
          IN  /\ layout[1].nodes[i].level = 1
              /\ \E k \in 1..Len(person.children) : person.children[k] = person.id
              /\ Len(person.parents) > 1

\* C19: every node of a layout, spouse nodes included, has x >= 0 and y >= 0
\* and lies inside the reported dimensions; the layout of an empty forest
\* has no nodes and the dimensions 0 x 0.
C19_NodesInsideDimensions ==
    layout # NotBuilt =>
        /\ \A i \in 1..Len(layout[1].nodes) :
              LET node == layout[1].nodes[i]
              IN  /\ node.x >= 0
                  /\ node.y >= 0
                  /\ node.x + 256 <= layout[1].dimensions.width
                  /\ node.y + 120 <= layout[1].dimensions.height
        /\ treeRoots[1] = <<>> =>
              /\ layout[1].nodes = <<>>
              /\ layout[1].dimensions = [width |-> 0, height |-> 0]

\* a child with a spouse node: the spouse node is the rightmost and lowest
C19_Witness ==
    /\ layout # NotBuilt
    /\ \E i \in NodesWithChildren(layout[1]) :
          LET child == layout[1].nodes[layout[1].nodes[i].children[1]]
          IN  /\ child.spouse # Undefined
              /\ layout[1].nodes[child.spouse[1]].x + 256 = layout[1].dimensions.width
              /\ child.y + 120 = layout[1].dimensions.height

\* the layout of an empty forest, built from data that has persons
C19_WitnessEmptyForest ==
    /\ layout # NotBuilt
    /\ treeRoots[1] = <<>>
    /\ Len(data.persons) > 0

\* C20 as stated: the midpoint of the children row is the centre x of the
\* parent node, or of the span of the parent and its spouse node.
C20_ChildrenCentred ==
    layout # NotBuilt =>
        \A i \in NodesWithChildren(layout[1]) :
            RowLeft(layout[1], i) + RowRight(layout[1], i)
              = 2 * centerX(layout[1].nodes[i], layout[1].nodes)

\* C20, amended: the children row starts at max(0, c - w/2), c being the
\* centre x of the parent or of the parent and spouse span and w the width of
\* the row: its midpoint is c when c >= w/2, and else the row starts at x = 0.
C20_ChildrenCentredOrAtZero ==
    layout # NotBuilt =>
        \A i \in NodesWithChildren(layout[1]) :
            LET c == centerX(layout[1].nodes[i], layout[1].nodes)
                w == childrenRowWidth(Len(layout[1].nodes[i].children))
            IN  /\ RowRight(layout[1], i) - RowLeft(layout[1], i) = w
                /\ IF 2 * c >= w
                   THEN RowLeft(layout[1], i) + RowRight(layout[1], i) = 2 * c
                   ELSE RowLeft(layout[1], i) = 0

\* one child centred under a parent and its spouse node, right of x = 0
C20_Witness ==
    /\ layout # NotBuilt
    /\ \E i \in NodesWithChildren(layout[1]) :
          /\ layout[1].nodes[i].spouse # Undefined
          /\ RowLeft(layout[1], i) > 0
          /\ RowLeft(layout[1], i) + RowRight(layout[1], i)
               = 2 * centerX(layout[1].nodes[i], layout[1].nodes)

\* the centre x of a node
NodeCentre(node) == node.x + (node.width \div 2)

\* the connectors of a layout, as a set
Connectors(lay) == {lay.connectors[k] : k \in 1..Len(lay.connectors)}

\* C21: for every node with two or more laid-out children there is a
\* horizontal connector from the centre x of the first child to the centre x
\* of the last child, and the vertical connector that drops from the bottom of
\* the parent ends on it, at an x between its two ends.
C21_BarSpansChildrenAndMeetsDrop ==
    layout # NotBuilt =>
        \A i \in NodesWithChildren(layout[1]) :
            LET node == layout[1].nodes[i]
                first == layout[1].nodes[node.children[1]]
                last == layout[1].nodes[node.children[Len(node.children)]]
            IN  Len(node.children) >= 2 =>
                  \E bar, drop \in Connectors(layout[1]) :
                      /\ bar.type = "horizontal"
                      /\ bar.x1 = NodeCentre(first)
                      /\ bar.x2 = NodeCentre(last)
                      /\ bar.y1 = bar.y2
                      /\ drop.type = "vertical"
                      /\ drop.x1 = centerX(node, layout[1].nodes)
                      /\ drop.x2 = drop.x1
                      /\ drop.y1 = node.y + node.height
                      /\ drop.y2 = bar.y1
                      /\ bar.x1 <= drop.x1
                      /\ drop.x1 <= bar.x2

\* a node with a spouse node and two laid-out children: the drop connector
\* meets the bar between its ends
C21_Witness ==
    /\ layout # NotBuilt
    /\ \E i \in NodesWithChildren(layout[1]) :
          LET node == layout[1].nodes[i]
          IN  /\ Len(node.children) >= 2
              /\ node.spouse # Undefined
              /\ NodeCentre(layout[1].nodes[node.children[1]])
                   < centerX(node, layout[1].nodes)
              /\ centerX(node, layout[1].nodes)
                   < NodeCentre(layout[1].nodes[node.children[Len(node.children)]])

\* a node with two laid-out children whose row was moved to x = 0: the drop
\* connector meets the bar at its left end
C21_WitnessLeftEnd ==
    /\ layout # NotBuilt
    /\ \E i \in NodesWithChildren(layout[1]) :
          /\ Len(layout[1].nodes[i].children) >= 2
          /\ RowLeft(layout[1], i) = 0
          /\ centerX(layout[1].nodes[i], layout[1].nodes)
               = NodeCentre(layout[1].nodes[layout[1].nodes[i].children[1]])

\* C22: for every node with laid-out children, the connector that drops from
\* the bottom of the parent ends between the parent's bottom edge (y + 120)
\* and the children's top edge (y + 160), and every child has a vertical
\* connector that starts there and runs downward to the child's top edge.
C22_ConnectorsInGap ==
    layout # NotBuilt =>
        \A i \in NodesWithChildren(layout[1]) :
            LET node == layout[1].nodes[i]
            IN  /\ \E drop \in Connectors(layout[1]) :
                      /\ drop.type = "vertical"
                      /\ drop.x1 = centerX(node, layout[1].nodes)
                      /\ drop.y1 = node.y + 120
                      /\ drop.y2 >= node.y + 120
                      /\ drop.y2 <= node.y + 160
                /\ \A k \in 1..Len(node.children) :
                      LET child == layout[1].nodes[node.children[k]]
                      IN  \E c \in Connectors(layout[1]) :
                              /\ c.type = "vertical"
                              /\ c.x1 = NodeCentre(child)
                              /\ c.y2 = child.y
                              /\ c.y1 <= c.y2
                              /\ c.y1 >= node.y + 120

\* C23: each person is in at most one node of the layout.
C23_OneNodePerPerson ==
    layout # NotBuilt =>
        \A i, j \in 1..Len(layout[1].nodes) :
            layout[1].nodes[i].person = layout[1].nodes[j].person => i = j

\* C24: two distinct nodes of a layout with the same y have x positions
\* that differ by at least the node width 256.
C24_NoOverlap ==
    layout # NotBuilt =>
        \A i, j \in 1..Len(layout[1].nodes) :
            (i # j /\ layout[1].nodes[i].y = layout[1].nodes[j].y) =>
                \/ layout[1].nodes[i].x - layout[1].nodes[j].x >= 256
                \/ layout[1].nodes[j].x - layout[1].nodes[i].x >= 256

====
